---- MODULE Spec2Model ----
(***************************************************************************)
(* Model of paperwork_backend/docimport.py: the ImportResult object, the   *)
(* three importers (PdfImporter, PdfDirectoryImporter, ImageImporter) and  *)
(* get_possible_importers over the IMPORTERS registry.                     *)
(*                                                                         *)
(* Python objects are modelled by reference: documents live in the heap    *)
(* `docs` (a document is its index), list objects live in the heap `lists` *)
(* (a list is its index), so that aliasing of the mutable default          *)
(* arguments of ImportResult.__init__ is visible.                          *)
(***************************************************************************)
EXTENDS Integers, Sequences, FiniteSets, TLC

VARIABLES index, docs, pdocs, lists, BASE_STATS, results, args, call, ret, ncalls

vars == <<index, docs, pdocs, lists, BASE_STATS, results, args, call, ret, ncalls>>

(* ----------------------------- bounds ---------------------------------- *)
\* number of calls in a sequence of calls
MaxCalls == 2
\* length of a file_uris list
MaxUris == 2

SeqsUpTo(S, n) == UNION {[1..k -> S] : k \in 0..n}

(* ----------------------------- strings --------------------------------- *)
\* A string is a sequence of one-character strings.
Lower(c) ==
  CASE c = "B" -> "b" [] c = "D" -> "d" [] c = "F" -> "f" [] c = "G" -> "g"
    [] c = "N" -> "n" [] c = "P" -> "p" [] OTHER -> c

\* variant: the name is compared without lower()
LowerStrKeepsCase(s) == s

\* str.lower()
LowerStr(s) == [i \in 1..Len(s) |-> Lower(s[i])]

\* str.endswith(suffix)
EndsWith(s, suf) ==
  /\ Len(s) >= Len(suf)
  /\ SubSeq(s, Len(s) - Len(suf) + 1, Len(s)) = suf

DotPdf == <<".", "p", "d", "f">>

\* ImgDoc.IMPORT_IMG_EXTENSIONS
IMPORT_IMG_EXTENSIONS ==
  << <<".", "b", "m", "p">>, <<".", "g", "i", "f">>, <<".", "j", "p", "e", "g">>,
     <<".", "p", "n", "g">>, <<".", "t", "i", "f", "f">> >>

(* ---------------------------- file system ------------------------------ *)
\* The files the URIs name.  A node is a directory (with its children, in
\* enumeration order) or a regular file (with its content hash, whether its
\* content loads as a PDF / decodes as an image, and its number of pages).
Dir(name, children) ==
  [name |-> name, dir |-> TRUE, children |-> children,
   hash |-> 0, pdf |-> FALSE, img |-> FALSE, npages |-> 0]

File(name, hash, pdf, img, npages) ==
  [name |-> name, dir |-> FALSE, children |-> <<>>,
   hash |-> hash, pdf |-> pdf, img |-> img, npages |-> npages]

FS ==
  << Dir(<<"i", "n">>, <<2, 3, 4>>),
     File(<<"a", ".", "p", "d", "f">>, 1, TRUE, FALSE, 2),
     Dir(<<"s", ".", "P", "d", "f">>, <<5, 6>>),
     File(<<"s", ".", "P", "n", "g">>, 4, FALSE, TRUE, 1),
     File(<<"B", ".", "P", "D", "F">>, 2, FALSE, FALSE, 0),
     File(<<"c", ".", "p", "d", "f">>, 3, TRUE, FALSE, 1),
     Dir(<<"e">>, <<>>),
     File(<<"t", ".", "g", "i", "f">>, 5, FALSE, TRUE, 1) >>

Uris == 1..Len(FS)
UriLists == SeqsUpTo(Uris, MaxUris)

\* the URI string of a node / the basename of a child
UriStr(u) == FS[u].name

(* --------------------------- can_import -------------------------------- *)
RECURSIVE PdfAllPdfFrom(_, _)
PdfAllPdfFrom(file_uris, i) ==
  IF i > Len(file_uris) THEN TRUE
  ELSE IF ~EndsWith(LowerStr(UriStr(file_uris[i])), DotPdf) THEN FALSE
  ELSE PdfAllPdfFrom(file_uris, i + 1)

PdfCanImport(file_uris, current_doc) ==
  IF Len(file_uris) <= 0 THEN FALSE ELSE PdfAllPdfFrom(file_uris, 1)

RECURSIVE ConcatAll(_)
ConcatAll(ss) == IF ss = <<>> THEN <<>> ELSE Head(ss) \o ConcatAll(Tail(ss))

\* PdfDirectoryImporter.__get_all_children on a directory: the files below
\* it, depth first.  enumerate_children raises GError on a non-directory; the
\* recursive call's GError is caught and the child itself is yielded.
RECURSIVE GetAllChildren(_)
GetAllChildren(parent) ==
  ConcatAll([k \in 1..Len(FS[parent].children) |->
               LET child == FS[parent].children[k]
               IN IF FS[child].dir THEN GetAllChildren(child) ELSE <<child>>])

\* enumerate_children(parent) raises GLib.GError
RaisesGError(parent) == ~FS[parent].dir

RECURSIVE DirCanFrom(_, _)
DirCanFrom(file_uris, i) ==
  IF i > Len(file_uris) THEN FALSE
  ELSE IF RaisesGError(file_uris[i]) THEN FALSE
  ELSE IF \E k \in 1..Len(GetAllChildren(file_uris[i])) :
            EndsWith(LowerStr(UriStr(GetAllChildren(file_uris[i])[k])), DotPdf)
       THEN TRUE
       ELSE DirCanFrom(file_uris, i + 1)

DirCanImport(file_uris, current_doc) ==
  IF Len(file_uris) <= 0 THEN FALSE ELSE DirCanFrom(file_uris, 1)

RECURSIVE ImgValidFrom(_, _)
ImgValidFrom(file_uri, e) ==
  IF e > Len(IMPORT_IMG_EXTENSIONS) THEN FALSE
  ELSE IF EndsWith(LowerStr(UriStr(file_uri)), IMPORT_IMG_EXTENSIONS[e]) THEN TRUE
  ELSE ImgValidFrom(file_uri, e + 1)

RECURSIVE ImgAllValidFrom(_, _)
ImgAllValidFrom(file_uris, i) ==
  IF i > Len(file_uris) THEN TRUE
  ELSE IF ~ImgValidFrom(file_uris[i], 1) THEN FALSE
  ELSE ImgAllValidFrom(file_uris, i + 1)

ImgCanImport(file_uris, current_doc) ==
  IF Len(file_uris) <= 0 THEN FALSE ELSE ImgAllValidFrom(file_uris, 1)

(* ----------------------------- registry -------------------------------- *)
IMPORTERS == <<"PdfDirectoryImporter", "PdfImporter", "ImageImporter">>

CanImport(importer, file_uris, current_doc) ==
  CASE importer = "PdfDirectoryImporter" -> DirCanImport(file_uris, current_doc)
    [] importer = "PdfImporter" -> PdfCanImport(file_uris, current_doc)
    [] importer = "ImageImporter" -> ImgCanImport(file_uris, current_doc)

\* variant: a capable importer is put in front of the list
RECURSIVE PossibleFromFront(_, _, _, _)
PossibleFromFront(file_uris, current_doc, i, importers) ==
  IF i > Len(IMPORTERS) THEN importers
  ELSE PossibleFromFront(file_uris, current_doc, i + 1,
         IF CanImport(IMPORTERS[i], file_uris, current_doc)
         THEN <<IMPORTERS[i]>> \o importers ELSE importers)

RECURSIVE PossibleFrom(_, _, _, _)
PossibleFrom(file_uris, current_doc, i, importers) ==
  IF i > Len(IMPORTERS) THEN importers
  ELSE PossibleFrom(file_uris, current_doc, i + 1,
         IF CanImport(IMPORTERS[i], file_uris, current_doc)
         THEN Append(importers, IMPORTERS[i]) ELSE importers)

get_possible_importers(file_uris, current_doc) ==
  PossibleFrom(file_uris, current_doc, 1, <<>>)

(* ------------------------ documents and pages -------------------------- *)
\* A document is its index in the heap `docs`; 0 is None.  Its record holds
\* the kind, is_new, the content of its pages (the file each page came from),
\* the file it was built from and whether that file loaded.
None == 0

NewDoc(kind, file) ==
  [kind |-> kind, is_new |-> TRUE, pages |-> <<>>, file |-> file, loaded |-> FALSE]

\* doc.nb_pages
nb_pages(dcs, d) == Len(dcs[d].pages)

\* A page is (document, position); list elements share one record shape so
\* that a list of pages and a list of lists of pages can be told apart.
NoPage == [t |-> "none", d |-> 0, n |-> 0, items |-> <<>>]
Page(d, n) == [t |-> "page", d |-> d, n |-> n, items |-> <<>>]
PageList(items) == [t |-> "list", d |-> 0, n |-> 0, items |-> items]

\* [p for p in doc.pages]
DocPages(dcs, d) == [i \in 1..nb_pages(dcs, d) |-> Page(d, i)]

\* PdfDoc(rootdir) followed by a successful doc.import_pdf(uri)
LoadedPdf(f) ==
  [kind |-> "pdf", is_new |-> FALSE, pages |-> [i \in 1..FS[f].npages |-> f],
   file |-> f, loaded |-> TRUE]

\* doc.add_page(img, []): the page is stored at the end of the document
AddPage(dcs, d, f) ==
  [dcs EXCEPT ![d] = [@ EXCEPT !.pages = Append(@, f), !.is_new = FALSE]]

\* the documents the store holds before any call: a persisted image document
\* with one page and a not yet persisted one without pages
InitDocs ==
  << [kind |-> "img", is_new |-> FALSE, pages |-> <<0>>, file |-> 0, loaded |-> TRUE],
     [kind |-> "img", is_new |-> TRUE, pages |-> <<>>, file |-> 0, loaded |-> TRUE] >>

(* ---------------------------- ImportResult ----------------------------- *)
PDF == "PDF"
DOCS == "Document(s)"
IMGS == "Image file(s)"
PAGES == "Page(s)"
BaseCategories == {PDF, DOCS, IMGS, PAGES}

\* ImportResult.BASE_STATS as the class statement builds it
BaseStatsInit == [k \in BaseCategories |-> 0]

EmptyDict == [k \in {} |-> 0]

\* dict.update
DictUpdate(d, s) ==
  [k \in DOMAIN d \cup DOMAIN s |-> IF k \in DOMAIN s THEN s[k] ELSE d[k]]

\* The list objects built once, when `def __init__` is evaluated: the default
\* values of new_docs, upd_docs, new_docs_pages and upd_docs_pages.
DefNewDocs == 1
DefUpdDocs == 2
DefNewDocsPages == 3
DefUpdDocsPages == 4
InitLists == << <<>>, <<>>, <<>>, <<>> >>

\* the arguments of ImportResult() when none is given
DefaultArgs ==
  [select_doc |-> None, select_page |-> NoPage,
   new_docs |-> DefNewDocs, upd_docs |-> DefUpdDocs,
   new_docs_pages |-> DefNewDocsPages, upd_docs_pages |-> DefUpdDocsPages,
   stats |-> EmptyDict]

\* variant: stats is BASE_STATS itself, not a copy of it
ImportResultInitNoCopy(a, dcs, base) ==
  LET sd == IF a.select_doc = None /\ a.select_page # NoPage
            THEN a.select_page.d ELSE a.select_doc
      sp == IF sd # None /\ a.select_page = NoPage
            THEN (IF nb_pages(dcs, sd) > 0 THEN Page(sd, 1) ELSE a.select_page)
            ELSE a.select_page
  IN [obj |-> [select_doc |-> sd, select_page |-> sp,
               new_docs |-> a.new_docs, upd_docs |-> a.upd_docs,
               new_docs_pages |-> a.new_docs_pages,
               upd_docs_pages |-> a.upd_docs_pages,
               stats |-> DictUpdate(base, a.stats)],
      base |-> DictUpdate(base, a.stats)]

\* variant: the document is not derived from the page
ImportResultInitNoDoc(a, dcs, base) ==
  LET sd == a.select_doc
      sp == IF sd # None /\ a.select_page = NoPage
            THEN (IF nb_pages(dcs, sd) > 0 THEN Page(sd, 1) ELSE a.select_page)
            ELSE a.select_page
  IN [obj |-> [select_doc |-> sd, select_page |-> sp,
               new_docs |-> a.new_docs, upd_docs |-> a.upd_docs,
               new_docs_pages |-> a.new_docs_pages,
               upd_docs_pages |-> a.upd_docs_pages,
               stats |-> DictUpdate(base, a.stats)],
      base |-> base]

\* ImportResult.__init__: the object built, and BASE_STATS after the call
ImportResultInit(a, dcs, base) ==
  LET sd == IF a.select_doc = None /\ a.select_page # NoPage
            THEN a.select_page.d ELSE a.select_doc
      sp == IF sd # None /\ a.select_page = NoPage
            THEN (IF nb_pages(dcs, sd) > 0 THEN Page(sd, 1) ELSE a.select_page)
            ELSE a.select_page
  IN [obj |-> [select_doc |-> sd, select_page |-> sp,
               new_docs |-> a.new_docs, upd_docs |-> a.upd_docs,
               new_docs_pages |-> a.new_docs_pages,
               upd_docs_pages |-> a.upd_docs_pages,
               stats |-> DictUpdate(base, a.stats)],
      base |-> base]

\* ImportResult.has_import
has_import(r, ls) == Len(ls[r.new_docs]) > 0 \/ Len(ls[r.upd_docs]) > 0

(* -------------------------- PdfImporter -------------------------------- *)
\* PdfDoc.hash_file(path) reads the file: it raises on a directory
HashFileRaises(f) == FS[f].dir

\* docsearch.is_hash_in_index(PdfDoc.hash_file(path))
is_hash_in_index(idx, f) == FS[f].hash \in idx

\* doc.import_pdf(uri) returns an error
ImportPdfError(f) == ~FS[f].pdf

\* the loop of PdfImporter.import_doc from its i-th file on; st holds the
\* locals doc, docs, pages and the heap of documents
RECURSIVE PdfLoop(_, _, _, _)
PdfLoop(file_uris, i, idx, st) ==
  IF i > Len(file_uris) THEN [st EXCEPT !.outcome = "done"]
  ELSE LET f == file_uris[i]
           d == Len(st.dcs) + 1
       IN IF HashFileRaises(f) THEN [st EXCEPT !.outcome = "raise"]
          ELSE IF is_hash_in_index(idx, f) THEN [st EXCEPT !.outcome = "duplicate"]
          ELSE IF ImportPdfError(f)
               THEN [st EXCEPT !.outcome = "raise", !.doc = d,
                               !.dcs = Append(@, NewDoc("pdf", f))]
               ELSE PdfLoop(file_uris, i + 1, idx,
                      [st EXCEPT !.doc = d,
                                 !.dcs = Append(@, LoadedPdf(f)),
                                 !.docs = Append(@, d),
                                 !.pages = @ \o DocPages(Append(st.dcs, LoadedPdf(f)), d)])

\* the locals when a PDF import_doc starts
PdfLocals(dcs) ==
  [outcome |-> "run", doc |-> None, docs |-> <<>>, pages |-> <<>>, dcs |-> dcs]

\* the keyword arguments of the final ImportResult(...) of PdfImporter.import_doc
PdfResultArgs(file_uris, st, nlists) ==
  [DefaultArgs EXCEPT
     !.select_doc = st.doc,
     !.new_docs = nlists + 1,
     !.new_docs_pages = nlists + 2,
     !.stats = (PDF :> Len(file_uris)) @@ (DOCS :> Len(file_uris))
               @@ (PAGES :> Len(st.pages))]

(* ----------------------- PdfDirectoryImporter -------------------------- *)
\* variant: a duplicate ends the walk of its folder
RECURSIVE DirChildLoopDupStops(_, _, _, _)
DirChildLoopDupStops(children, k, idx, st) ==
  IF k > Len(children) THEN st
  ELSE LET child == children[k]
           d == Len(st.dcs) + 1
       IN IF ~EndsWith(LowerStr(UriStr(child)), DotPdf)
          THEN DirChildLoopDupStops(children, k + 1, idx, st)
          ELSE IF is_hash_in_index(idx, child)
          THEN st
          ELSE IF ImportPdfError(child)
          THEN DirChildLoopDupStops(children, k + 1, idx,
                 [st EXCEPT !.doc = d, !.dcs = Append(@, NewDoc("pdf", child))])
          ELSE DirChildLoopDupStops(children, k + 1, idx,
                 [st EXCEPT !.doc = d,
                            !.dcs = Append(@, LoadedPdf(child)),
                            !.docs = Append(@, d),
                            !.pages = Append(@,
                               PageList(DocPages(Append(st.dcs, LoadedPdf(child)), d)))])

\* the inner loop of PdfDirectoryImporter.import_doc over the children of
\* one folder, from the k-th child on
RECURSIVE DirChildLoop(_, _, _, _)
DirChildLoop(children, k, idx, st) ==
  IF k > Len(children) THEN st
  ELSE LET child == children[k]
           d == Len(st.dcs) + 1
       IN IF ~EndsWith(LowerStr(UriStr(child)), DotPdf)
          THEN DirChildLoop(children, k + 1, idx, st)
          ELSE IF is_hash_in_index(idx, child)
          THEN DirChildLoop(children, k + 1, idx, st)
          ELSE IF ImportPdfError(child)
          THEN DirChildLoop(children, k + 1, idx,
                 [st EXCEPT !.doc = d, !.dcs = Append(@, NewDoc("pdf", child))])
          ELSE DirChildLoop(children, k + 1, idx,
                 [st EXCEPT !.doc = d,
                            !.dcs = Append(@, LoadedPdf(child)),
                            !.docs = Append(@, d),
                            !.pages = Append(@,
                               PageList(DocPages(Append(st.dcs, LoadedPdf(child)), d)))])

\* the outer loop over file_uris; the GError of a URI that is no folder is
\* not caught in import_doc
RECURSIVE DirLoop(_, _, _, _)
DirLoop(file_uris, i, idx, st) ==
  IF i > Len(file_uris) THEN [st EXCEPT !.outcome = "done"]
  ELSE IF RaisesGError(file_uris[i]) THEN [st EXCEPT !.outcome = "raise"]
  ELSE DirLoop(file_uris, i + 1, idx,
               DirChildLoop(GetAllChildren(file_uris[i]), 1, idx, st))

RECURSIVE SumNbPages(_, _)
SumNbPages(dcs, ds) ==
  IF ds = <<>> THEN 0 ELSE nb_pages(dcs, Head(ds)) + SumNbPages(dcs, Tail(ds))

\* the keyword arguments of the final ImportResult(...) of
\* PdfDirectoryImporter.import_doc
DirResultArgs(st, nlists) ==
  [DefaultArgs EXCEPT
     !.select_doc = st.doc,
     !.new_docs = nlists + 1,
     !.new_docs_pages = nlists + 2,
     !.stats = (PDF :> Len(st.docs)) @@ (DOCS :> Len(st.docs))
               @@ (PAGES :> SumNbPages(st.dcs, st.docs))]

(* --------------------------- ImageImporter ----------------------------- *)
\* truth value of a document object: None is false, an object is true
Truthy(d) == d # None

\* Image.open(path) raises: a directory, or a file that is no image
ImageOpenRaises(f) == FS[f].dir \/ ~FS[f].img

\* variant: a document is created whenever current_doc is None or is_new
ImgLocalsAlwaysFresh(dcs, current_doc) ==
  IF current_doc = None \/ dcs[current_doc].is_new
  THEN LET cur == Len(dcs) + 1
       IN [outcome |-> "run", cur |-> cur, page |-> NoPage,
           new_docs |-> <<cur>>, upd_docs |-> <<>>,
           new_docs_pages |-> <<>>, upd_docs_pages |-> <<>>,
           dcs |-> Append(dcs, [NewDoc("img", 0) EXCEPT !.loaded = TRUE])]
  ELSE [outcome |-> "run", cur |-> current_doc, page |-> NoPage,
        new_docs |-> <<>>, upd_docs |-> <<current_doc>>,
        new_docs_pages |-> <<>>, upd_docs_pages |-> <<>>,
        dcs |-> dcs]

\* the locals of ImageImporter.import_doc after the choice of the target
ImgLocals(dcs, current_doc) ==
  IF current_doc = None \/ dcs[current_doc].is_new
  THEN LET fresh == ~Truthy(current_doc)
           cur == IF fresh THEN Len(dcs) + 1 ELSE current_doc
       IN [outcome |-> "run", cur |-> cur, page |-> NoPage,
           new_docs |-> <<cur>>, upd_docs |-> <<>>,
           new_docs_pages |-> <<>>, upd_docs_pages |-> <<>>,
           dcs |-> IF fresh THEN Append(dcs, [NewDoc("img", 0) EXCEPT !.loaded = TRUE])
                   ELSE dcs]
  ELSE [outcome |-> "run", cur |-> current_doc, page |-> NoPage,
        new_docs |-> <<>>, upd_docs |-> <<current_doc>>,
        new_docs_pages |-> <<>>, upd_docs_pages |-> <<>>,
        dcs |-> dcs]

\* variant: every page is recorded in new_docs_pages
RECURSIVE ImgLoopAllNew(_, _, _)
ImgLoopAllNew(file_uris, i, st) ==
  IF i > Len(file_uris) THEN [st EXCEPT !.outcome = "done"]
  ELSE LET f == file_uris[i]
           dcs2 == AddPage(st.dcs, st.cur, f)
           page == Page(st.cur, nb_pages(dcs2, st.cur))
       IN IF ImageOpenRaises(f) THEN [st EXCEPT !.outcome = "raise"]
          ELSE ImgLoopAllNew(file_uris, i + 1,
                 [st EXCEPT !.dcs = dcs2, !.page = page,
                            !.new_docs_pages = Append(@, page)])

\* the loop of ImageImporter.import_doc from its i-th file on
RECURSIVE ImgLoop(_, _, _)
ImgLoop(file_uris, i, st) ==
  IF i > Len(file_uris) THEN [st EXCEPT !.outcome = "done"]
  ELSE LET f == file_uris[i]
           dcs2 == AddPage(st.dcs, st.cur, f)
           page == Page(st.cur, nb_pages(dcs2, st.cur))
       IN IF ImageOpenRaises(f) THEN [st EXCEPT !.outcome = "raise"]
          ELSE ImgLoop(file_uris, i + 1,
                 IF st.new_docs = <<>>
                 THEN [st EXCEPT !.dcs = dcs2, !.page = page,
                                 !.upd_docs_pages = Append(@, page)]
                 ELSE [st EXCEPT !.dcs = dcs2, !.page = page,
                                 !.new_docs_pages = Append(@, page)])

\* the keyword arguments of the final ImportResult(...) of
\* ImageImporter.import_doc
ImgResultArgs(file_uris, st, nlists) ==
  [select_doc |-> st.cur, select_page |-> st.page,
   new_docs |-> nlists + 1, upd_docs |-> nlists + 2,
   new_docs_pages |-> nlists + 3, upd_docs_pages |-> nlists + 4,
   stats |-> (IMGS :> Len(file_uris))
             @@ (DOCS :> IF st.new_docs = <<>> THEN 0 ELSE 1)
             @@ (PAGES :> Len(st.new_docs_pages) + Len(st.upd_docs_pages))]

(* --------------------------- state machine ----------------------------- *)
\* index       the content hashes the store's index holds
\* docs        the heap of documents; pdocs: the heap before the last call
\* lists       the heap of list objects
\* BASE_STATS  the class attribute ImportResult.BASE_STATS
\* results     the ImportResult objects returned so far, oldest first
\* args        the arguments of the last call
\* call        the last call: its name and how it ended
\* ret         the value the last can_import / get_possible_importers returned
\* ncalls      the number of calls made

\* the documents a caller can pass as current_doc
CurDocs(dcs) == {None} \cup {d \in 1..Len(dcs) : dcs[d].kind = "img"}

NoRet == [b |-> FALSE, l |-> <<>>]

\* the index of the store when a call starts: any set of hashes of the PDF
\* files
IndexChoices == SUBSET {FS[2].hash, FS[5].hash, FS[6].hash}

Init ==
  /\ index \in IndexChoices
  /\ docs = InitDocs
  /\ pdocs = InitDocs
  /\ lists = InitLists
  /\ BASE_STATS = BaseStatsInit
  /\ results = <<>>
  /\ args = [uris |-> <<>>, cur |-> None, ctor |-> DefaultArgs]
  /\ call = [op |-> "none", outcome |-> "none"]
  /\ ret = NoRet
  /\ ncalls = 0

\* PdfImporter.import_doc(file_uris, docsearch): current_doc is not read
PdfImportCall(file_uris) ==
  /\ LET st == PdfLoop(file_uris, 1, index, PdfLocals(docs))
         r == IF st.outcome = "duplicate"
              THEN ImportResultInit(DefaultArgs, st.dcs, BASE_STATS)
              ELSE ImportResultInit(PdfResultArgs(file_uris, st, Len(lists)),
                                    st.dcs, BASE_STATS)
     IN /\ args' = [uris |-> file_uris, cur |-> None, ctor |-> DefaultArgs]
        /\ call' = [op |-> "PdfImporter.import_doc", outcome |-> st.outcome]
        /\ docs' = st.dcs
        /\ lists' = IF st.outcome = "done" THEN lists \o <<st.docs, st.pages>>
                    ELSE lists
        /\ results' = IF st.outcome = "raise" THEN results
                      ELSE Append(results, r.obj)
        /\ BASE_STATS' = IF st.outcome = "raise" THEN BASE_STATS ELSE r.base
  /\ pdocs' = docs
  /\ ncalls' = ncalls + 1
  /\ UNCHANGED <<index, ret>>

\* PdfDirectoryImporter.import_doc(file_uris, docsearch): current_doc is not read
DirImportCall(file_uris) ==
  /\ LET st == DirLoop(file_uris, 1, index, PdfLocals(docs))
         r == ImportResultInit(DirResultArgs(st, Len(lists)), st.dcs, BASE_STATS)
     IN /\ args' = [uris |-> file_uris, cur |-> None, ctor |-> DefaultArgs]
        /\ call' = [op |-> "PdfDirectoryImporter.import_doc", outcome |-> st.outcome]
        /\ docs' = st.dcs
        /\ lists' = IF st.outcome = "done" THEN lists \o <<st.docs, st.pages>>
                    ELSE lists
        /\ results' = IF st.outcome = "raise" THEN results
                      ELSE Append(results, r.obj)
        /\ BASE_STATS' = IF st.outcome = "raise" THEN BASE_STATS ELSE r.base
  /\ pdocs' = docs
  /\ ncalls' = ncalls + 1
  /\ UNCHANGED <<index, ret>>

\* ImageImporter.import_doc(file_uris, docsearch, current_doc)
ImgImportCall(file_uris, current_doc) ==
  /\ LET st == ImgLoop(file_uris, 1, ImgLocals(docs, current_doc))
         r == ImportResultInit(ImgResultArgs(file_uris, st, Len(lists)),
                               st.dcs, BASE_STATS)
     IN /\ args' = [uris |-> file_uris, cur |-> current_doc, ctor |-> DefaultArgs]
        /\ call' = [op |-> "ImageImporter.import_doc", outcome |-> st.outcome]
        /\ docs' = st.dcs
        /\ lists' = IF st.outcome = "done"
                    THEN lists \o <<st.new_docs, st.upd_docs,
                                    st.new_docs_pages, st.upd_docs_pages>>
                    ELSE lists
        /\ results' = IF st.outcome = "raise" THEN results
                      ELSE Append(results, r.obj)
        /\ BASE_STATS' = IF st.outcome = "raise" THEN BASE_STATS ELSE r.base
  /\ pdocs' = docs
  /\ ncalls' = ncalls + 1
  /\ UNCHANGED <<index, ret>>

(* ------- one import_doc call, on any list of URIs and any index -------- *)
PdfImportDoc ==
  /\ ncalls = 0
  /\ \E file_uris \in UriLists : PdfImportCall(file_uris)

DirImportDoc ==
  /\ ncalls = 0
  /\ \E file_uris \in UriLists : DirImportCall(file_uris)

ImgImportDoc ==
  /\ ncalls = 0
  /\ \E file_uris \in UriLists, current_doc \in CurDocs(docs) :
       ImgImportCall(file_uris, current_doc)

Next == PdfImportDoc \/ DirImportDoc \/ ImgImportDoc

Spec == Init /\ [][Next]_vars

(* ---------- sequences of import_doc calls on the same store ------------ *)
\* the URIs the calls of a sequence take: the folder "in", a.pdf and s.Png
SeqUris == {1, 2, 4}
SeqUriLists == SeqsUpTo(SeqUris, MaxUris)

InitSeq ==
  /\ index \in SUBSET {FS[2].hash}
  /\ docs = InitDocs
  /\ pdocs = InitDocs
  /\ lists = InitLists
  /\ BASE_STATS = BaseStatsInit
  /\ results = <<>>
  /\ args = [uris |-> <<>>, cur |-> None, ctor |-> DefaultArgs]
  /\ call = [op |-> "none", outcome |-> "none"]
  /\ ret = NoRet
  /\ ncalls = 0

NextPdfImportDoc ==
  /\ ncalls < MaxCalls
  /\ \E file_uris \in SeqUriLists : PdfImportCall(file_uris)

NextDirImportDoc ==
  /\ ncalls < MaxCalls
  /\ \E file_uris \in SeqUriLists : DirImportCall(file_uris)

NextImgImportDoc ==
  /\ ncalls < MaxCalls
  /\ \E file_uris \in SeqUriLists, current_doc \in CurDocs(docs) :
       ImgImportCall(file_uris, current_doc)

NextSeq == NextPdfImportDoc \/ NextDirImportDoc \/ NextImgImportDoc

SpecSeq == InitSeq /\ [][NextSeq]_vars

(* ---- can_import and get_possible_importers on drawn arguments ---- *)
InitQuery ==
  /\ index = {}
  /\ docs = InitDocs
  /\ pdocs = InitDocs
  /\ lists = InitLists
  /\ BASE_STATS = BaseStatsInit
  /\ results = <<>>
  /\ args \in [uris : UriLists, cur : CurDocs(InitDocs), ctor : {DefaultArgs}]
  /\ call = [op |-> "none", outcome |-> "none"]
  /\ ret = NoRet
  /\ ncalls = 0

Query(op, b, l) ==
  /\ ncalls < MaxCalls
  /\ call' = [op |-> op, outcome |-> "done"]
  /\ ret' = [b |-> b, l |-> l]
  /\ ncalls' = ncalls + 1
  /\ UNCHANGED <<index, docs, pdocs, lists, BASE_STATS, results, args>>

CallPdfCanImport ==
  Query("PdfImporter.can_import", PdfCanImport(args.uris, args.cur), <<>>)

CallDirCanImport ==
  Query("PdfDirectoryImporter.can_import", DirCanImport(args.uris, args.cur), <<>>)

CallImgCanImport ==
  Query("ImageImporter.can_import", ImgCanImport(args.uris, args.cur), <<>>)

CallGetPossibleImporters ==
  Query("get_possible_importers", FALSE, get_possible_importers(args.uris, args.cur))

NextQuery ==
  CallPdfCanImport \/ CallDirCanImport \/ CallImgCanImport \/ CallGetPossibleImporters

SpecQuery == InitQuery /\ [][NextQuery]_vars

(* ---------------- ImportResult(...) on drawn arguments ---------------- *)
\* documents and list objects a caller holds when it builds an ImportResult
CtorDocs == Append(InitDocs, LoadedPdf(2))
CtorLists ==
  InitLists \o << <<1>>, <<3>>, <<Page(1, 1)>>, <<Page(3, 1), Page(3, 2)>> >>

CtorArgs ==
  [select_doc : 0..Len(CtorDocs),
   select_page : {NoPage, Page(1, 1), Page(3, 1), Page(3, 2)},
   new_docs : {DefNewDocs, 5, 6},
   upd_docs : {DefUpdDocs, 5},
   new_docs_pages : {DefNewDocsPages, 7, 8},
   upd_docs_pages : {DefUpdDocsPages, 7},
   stats : {EmptyDict, (PDF :> 1) @@ (PAGES :> 2), (IMGS :> 2) @@ ("Other" :> 1)}]

InitCtor ==
  /\ index = {}
  /\ docs = CtorDocs
  /\ pdocs = CtorDocs
  /\ lists = CtorLists
  /\ BASE_STATS = BaseStatsInit
  /\ results = <<>>
  /\ args \in [uris : {<<>>}, cur : {None}, ctor : CtorArgs]
  /\ call = [op |-> "none", outcome |-> "none"]
  /\ ret = NoRet
  /\ ncalls = 0

\* ImportResult(select_doc, select_page, new_docs, upd_docs, new_docs_pages,
\* upd_docs_pages, stats)
Construct ==
  /\ ncalls < MaxCalls
  /\ LET r == ImportResultInit(args.ctor, docs, BASE_STATS)
     IN /\ results' = Append(results, r.obj)
        /\ BASE_STATS' = r.base
  /\ call' = [op |-> "ImportResult", outcome |-> "done"]
  /\ ncalls' = ncalls + 1
  /\ UNCHANGED <<index, docs, pdocs, lists, args, ret>>

NextCtor == Construct

SpecCtor == InitCtor /\ [][NextCtor]_vars

(* ------------------------------ claims --------------------------------- *)
LastResult == results[Len(results)]
Returned == call.outcome \in {"done", "duplicate"}
InSeq(x, sq) == \E i \in 1..Len(sq) : sq[i] = x
AllRegularFiles(uris) == \A i \in 1..Len(uris) : ~FS[uris[i]].dir
AllFolders(uris) == \A i \in 1..Len(uris) : FS[uris[i]].dir
AllImages(uris) == \A i \in 1..Len(uris) : ~FS[uris[i]].dir /\ FS[uris[i]].img

\* the name ends with ".pdf", whatever the case of its letters
EndsDotPdf(nm) ==
  /\ Len(nm) >= 4
  /\ nm[Len(nm) - 3] = "."
  /\ nm[Len(nm) - 2] \in {"p", "P"}
  /\ nm[Len(nm) - 1] \in {"d", "D"}
  /\ nm[Len(nm)] \in {"f", "F"}

RECURSIVE SumSeq(_)
SumSeq(ns) == IF ns = <<>> THEN 0 ELSE Head(ns) + SumSeq(Tail(ns))

RECURSIVE SumPages(_)
SumPages(S) ==
  IF S = {} THEN 0
  ELSE LET f == CHOOSE x \in S : TRUE IN FS[f].npages + SumPages(S \ {f})

\* the regular files in the tree of a folder
RECURSIVE FilesBelow(_)
FilesBelow(u) ==
  UNION {IF FS[FS[u].children[k]].dir THEN FilesBelow(FS[u].children[k])
         ELSE {FS[u].children[k]} : k \in 1..Len(FS[u].children)}

PdfBelow(u) == {f \in FilesBelow(u) : EndsDotPdf(FS[f].name)}
DupBelow(u) == {f \in PdfBelow(u) : FS[f].hash \in index}
GoodBelow(u) == {f \in PdfBelow(u) : FS[f].hash \notin index /\ FS[f].pdf}

\* an ImportResult that reports nothing
EmptyResult(r) ==
  /\ ~has_import(r, lists)
  /\ lists[r.new_docs] = <<>>
  /\ lists[r.upd_docs] = <<>>
  /\ lists[r.new_docs_pages] = <<>>
  /\ lists[r.upd_docs_pages] = <<>>
  /\ r.select_doc = None
  /\ r.select_page = NoPage
  /\ r.stats = [k \in BaseCategories |-> 0]

\* C1: PdfImporter.import_doc on a list holding a file whose hash is in the
\* index returns an empty ImportResult and imports nothing, not even the
\* files that precede the duplicate.
C1_DuplicateImportsNothing ==
  (/\ call.op = "PdfImporter.import_doc"
   /\ AllRegularFiles(args.uris)
   /\ \E i \in 1..Len(args.uris) : FS[args.uris[i]].hash \in index)
  => /\ call.outcome = "duplicate"
     /\ EmptyResult(LastResult)
     /\ docs = pdocs

\* C2: PdfDirectoryImporter.import_doc on folders returns one new document
\* per *.pdf file of the trees that is no duplicate and loads (N - M of them
\* when all the files that are no duplicate load), with stats[PDF] =
\* stats[Document(s)] = that number and stats[Page(s)] the sum of their page
\* counts; it never raises on a duplicate or a file that fails to load, and
\* it creates no document for a duplicate.
C2_FolderImportCounts ==
  (/\ call.op = "PdfDirectoryImporter.import_doc"
   /\ AllFolders(args.uris))
  => LET uris == args.uris
         N == SumSeq([i \in 1..Len(uris) |-> Cardinality(PdfBelow(uris[i]))])
         M == SumSeq([i \in 1..Len(uris) |-> Cardinality(DupBelow(uris[i]))])
         G == SumSeq([i \in 1..Len(uris) |-> Cardinality(GoodBelow(uris[i]))])
         P == SumSeq([i \in 1..Len(uris) |-> SumPages(GoodBelow(uris[i]))])
         allLoad == \A i \in 1..Len(uris) :
                      \A f \in PdfBelow(uris[i]) \ DupBelow(uris[i]) : FS[f].pdf
     IN /\ call.outcome = "done"
        /\ Len(lists[LastResult.new_docs]) = G
        /\ allLoad => Len(lists[LastResult.new_docs]) = N - M
        /\ LastResult.stats[PDF] = G
        /\ LastResult.stats[DOCS] = G
        /\ LastResult.stats[PAGES] = P
        /\ LastResult.stats[PAGES] = SumNbPages(docs, lists[LastResult.new_docs])
        /\ \A d \in (Len(pdocs) + 1)..Len(docs) : FS[docs[d].file].hash \notin index
        /\ \A k \in 1..G :
             /\ lists[LastResult.new_docs][k] > Len(pdocs)
             /\ docs[lists[LastResult.new_docs][k]].loaded

\* a folder import that skipped a duplicate and imported the other files
C2_Witness ==
  /\ call.op = "PdfDirectoryImporter.import_doc"
  /\ AllFolders(args.uris)
  /\ \E i \in 1..Len(args.uris) : DupBelow(args.uris[i]) # {}
  /\ \A i \in 1..Len(args.uris) :
       \A f \in PdfBelow(args.uris[i]) \ DupBelow(args.uris[i]) : FS[f].pdf
  /\ call.outcome = "done"
  /\ Len(lists[LastResult.new_docs]) = 2

\* C3: ImageImporter.import_doc on k images appends k pages to one target
\* document in input order and records all of them in one list:
\* new_docs_pages, with new_docs = [target] and stats[Document(s)] = 1, when
\* current_doc is None or is_new; upd_docs_pages, with upd_docs =
\* [current_doc] and stats[Document(s)] = 0, when current_doc is persisted.
\* stats[Image file(s)] = stats[Page(s)] = k, select_doc is the target and
\* select_page is the last page appended.
C3_ImagePagesRecorded ==
  (/\ call.op = "ImageImporter.import_doc"
   /\ AllImages(args.uris))
  => /\ call.outcome = "done"
     /\ LET r == LastResult
            k == Len(args.uris)
            t == r.select_doc
            had == IF t <= Len(pdocs) THEN Len(pdocs[t].pages) ELSE 0
            appended == [i \in 1..k |-> Page(t, had + i)]
        IN /\ t \in 1..Len(docs)
           /\ docs[t].pages =
                (IF t <= Len(pdocs) THEN pdocs[t].pages ELSE <<>>) \o args.uris
           /\ \A d \in 1..Len(pdocs) : d # t => docs[d] = pdocs[d]
           /\ Len(docs) <= Len(pdocs) + 1
           /\ Len(docs) = Len(pdocs) + 1 => t = Len(docs)
           /\ IF args.cur = None \/ pdocs[args.cur].is_new
              THEN /\ lists[r.new_docs] = <<t>>
                   /\ lists[r.upd_docs] = <<>>
                   /\ lists[r.new_docs_pages] = appended
                   /\ lists[r.upd_docs_pages] = <<>>
                   /\ r.stats[DOCS] = 1
              ELSE /\ t = args.cur
                   /\ lists[r.new_docs] = <<>>
                   /\ lists[r.upd_docs] = <<args.cur>>
                   /\ lists[r.new_docs_pages] = <<>>
                   /\ lists[r.upd_docs_pages] = appended
                   /\ r.stats[DOCS] = 0
           /\ r.stats[IMGS] = k
           /\ r.stats[PAGES] = k
           /\ r.stats[PDF] = 0
           /\ k > 0 => r.select_page = appended[k]

\* two different images appended to a persisted document
C3_Witness ==
  /\ call.op = "ImageImporter.import_doc"
  /\ call.outcome = "done"
  /\ Len(args.uris) = 2
  /\ args.uris[1] # args.uris[2]
  /\ args.cur # None
  /\ ~pdocs[args.cur].is_new
  /\ Len(lists[LastResult.upd_docs_pages]) = 2

\* C7 as stated: whenever current_doc is None or is_new, ImageImporter
\* creates a document, which is the target and the sole entry of new_docs;
\* current_doc is the target only when it is present and persisted.
C7_NewDocWheneverNoneOrNew ==
  (/\ call.op = "ImageImporter.import_doc"
   /\ call.outcome = "done")
  => /\ (args.cur = None \/ pdocs[args.cur].is_new)
          => /\ Len(docs) = Len(pdocs) + 1
             /\ LastResult.select_doc = Len(docs)
             /\ lists[LastResult.new_docs] = <<Len(docs)>>
     /\ (args.cur # None /\ LastResult.select_doc = args.cur)
          => ~pdocs[args.cur].is_new

\* C7 amended: ImageImporter creates a document only when current_doc is
\* None, and that document is the target and the sole entry of new_docs; a
\* current_doc that is present is always reused as the target, as the sole
\* entry of new_docs when it is is_new and as the sole entry of upd_docs when
\* it is persisted.
C7_NewDocOnlyWhenNone ==
  (/\ call.op = "ImageImporter.import_doc"
   /\ call.outcome = "done")
  => LET r == LastResult
     IN IF args.cur = None
        THEN /\ Len(docs) = Len(pdocs) + 1
             /\ docs[Len(docs)].kind = "img"
             /\ r.select_doc = Len(docs)
             /\ lists[r.new_docs] = <<Len(docs)>>
             /\ lists[r.upd_docs] = <<>>
        ELSE /\ Len(docs) = Len(pdocs)
             /\ r.select_doc = args.cur
             /\ IF pdocs[args.cur].is_new
                THEN lists[r.new_docs] = <<args.cur>> /\ lists[r.upd_docs] = <<>>
                ELSE lists[r.new_docs] = <<>> /\ lists[r.upd_docs] = <<args.cur>>

\* an image imported into a current_doc that is is_new
C7_Witness ==
  /\ call.op = "ImageImporter.import_doc"
  /\ call.outcome = "done"
  /\ args.cur # None
  /\ pdocs[args.cur].is_new
  /\ Len(args.uris) > 0
  /\ LastResult.select_doc = args.cur

\* C8: the select_doc of PdfDirectoryImporter.import_doc is the last element
\* of new_docs, None when new_docs is empty, and never a document whose load
\* failed.
C8_SelectDocIsLastImported ==
  (/\ call.op = "PdfDirectoryImporter.import_doc"
   /\ call.outcome = "done")
  => LET r == LastResult
         nd == lists[r.new_docs]
     IN /\ r.select_doc = (IF nd = <<>> THEN None ELSE nd[Len(nd)])
        /\ r.select_doc # None => docs[r.select_doc].loaded

\* C9: in the result of any importer new_docs_pages and upd_docs_pages are
\* flat sequences of pages of the documents of new_docs and upd_docs, and
\* their lengths add up to stats[Page(s)].
C9_PageListsFlat ==
  (/\ call.op \in {"PdfImporter.import_doc", "PdfDirectoryImporter.import_doc",
                   "ImageImporter.import_doc"}
   /\ Returned)
  => LET r == LastResult
         np == lists[r.new_docs_pages]
         up == lists[r.upd_docs_pages]
     IN /\ \A i \in 1..Len(np) :
             np[i].t = "page" /\ InSeq(np[i].d, lists[r.new_docs])
        /\ \A i \in 1..Len(up) :
             up[i].t = "page" /\ InSeq(up[i].d, lists[r.upd_docs])
        /\ Len(np) + Len(up) = r.stats[PAGES]

\* a result all of whose lists are the default argument values
BuiltFromDefaults(r) ==
  /\ r.new_docs = DefNewDocs
  /\ r.upd_docs = DefUpdDocs
  /\ r.new_docs_pages = DefNewDocsPages
  /\ r.upd_docs_pages = DefUpdDocsPages

DefaultsUntouched ==
  /\ lists[DefNewDocs] = <<>>
  /\ lists[DefUpdDocs] = <<>>
  /\ lists[DefNewDocsPages] = <<>>
  /\ lists[DefUpdDocsPages] = <<>>
  /\ BASE_STATS = [k \in BaseCategories |-> 0]
  /\ \A i \in 1..Len(results) :
       BuiltFromDefaults(results[i]) =>
         /\ ~has_import(results[i], lists)
         /\ \A k \in BaseCategories : results[i].stats[k] = 0

EarlierResultsKept ==
  \A i \in 1..Len(results) :
    /\ i <= Len(results')
    /\ results'[i] = results[i]
    /\ lists'[results[i].new_docs] = lists[results[i].new_docs]
    /\ lists'[results[i].upd_docs] = lists[results[i].upd_docs]
    /\ lists'[results[i].new_docs_pages] = lists[results[i].new_docs_pages]
    /\ lists'[results[i].upd_docs_pages] = lists[results[i].upd_docs_pages]

\* C10: no import_doc call changes the lists or the stats of an ImportResult
\* returned earlier; the default argument lists stay empty, so a result built
\* from defaults has no import and all stats at 0; BASE_STATS is never
\* modified.
C10_NoSharedState == []DefaultsUntouched /\ [][EarlierResultsKept]_vars

\* PdfImporter returned ImportResult() on a duplicate, then an importer
\* returned a result with documents
C10_Witness ==
  /\ Len(results) = 2
  /\ BuiltFromDefaults(results[1])
  /\ has_import(results[2], lists)
  /\ results[2].stats[PAGES] > 0

\* C4: ImportResult(...) with only select_page takes the page's document as
\* select_doc; with only select_doc takes the first page of a document that
\* has pages and no page of a document without pages; with neither keeps
\* both None; the lists are stored as given, and stats holds the four base
\* categories, 0 unless given.
C4_SelectionNormalized ==
  (call.op = "ImportResult")
  => LET a == args.ctor
         r == LastResult
     IN /\ (a.select_doc = None /\ a.select_page # NoPage)
             => r.select_doc = a.select_page.d /\ r.select_page = a.select_page
        /\ (a.select_doc # None /\ a.select_page = NoPage
              /\ Len(docs[a.select_doc].pages) > 0)
             => r.select_doc = a.select_doc /\ r.select_page = Page(a.select_doc, 1)
        /\ (a.select_doc # None /\ a.select_page = NoPage
              /\ Len(docs[a.select_doc].pages) = 0)
             => r.select_doc = a.select_doc /\ r.select_page = NoPage
        /\ (a.select_doc = None /\ a.select_page = NoPage)
             => r.select_doc = None /\ r.select_page = NoPage
        /\ (a.select_doc # None /\ a.select_page # NoPage)
             => r.select_doc = a.select_doc /\ r.select_page = a.select_page
        /\ r.new_docs = a.new_docs
        /\ r.upd_docs = a.upd_docs
        /\ r.new_docs_pages = a.new_docs_pages
        /\ r.upd_docs_pages = a.upd_docs_pages
        /\ lists = CtorLists
        /\ DOMAIN r.stats = BaseCategories \cup DOMAIN a.stats
        /\ \A k \in BaseCategories :
             r.stats[k] = (IF k \in DOMAIN a.stats THEN a.stats[k] ELSE 0)
        /\ \A k \in DOMAIN a.stats : r.stats[k] = a.stats[k]

\* an ImportResult built from a page alone
C4_Witness ==
  /\ call.op = "ImportResult"
  /\ args.ctor.select_doc = None
  /\ args.ctor.select_page = Page(3, 2)
  /\ LastResult.select_doc = 3

\* C5: PdfImporter.can_import is true iff file_uris is not empty and every
\* entry ends with ".pdf" in any case; on an empty list can_import is false
\* for each of the three importers, whatever current_doc is.
C5_CanImport ==
  /\ (call.op = "PdfImporter.can_import")
       => ret.b = (/\ Len(args.uris) > 0
                   /\ \A i \in 1..Len(args.uris) : EndsDotPdf(UriStr(args.uris[i])))
  /\ (/\ call.op \in {"PdfImporter.can_import", "PdfDirectoryImporter.can_import",
                      "ImageImporter.can_import"}
      /\ args.uris = <<>>)
       => ret.b = FALSE

\* PdfImporter.can_import accepted a list with an upper-case ".PDF" name
C5_Witness ==
  /\ call.op = "PdfImporter.can_import"
  /\ ret.b
  /\ \E i \in 1..Len(args.uris) : UriStr(args.uris[i]) = <<"B", ".", "P", "D", "F">>

RegistryPos(m) == CHOOSE k \in 1..Len(IMPORTERS) : IMPORTERS[k] = m

PossibleImportersExact ==
  (call.op = "get_possible_importers")
  => /\ \A k \in 1..Len(IMPORTERS) :
          InSeq(IMPORTERS[k], ret.l) <=> CanImport(IMPORTERS[k], args.uris, args.cur)
     /\ \A i \in 1..Len(ret.l) : InSeq(ret.l[i], IMPORTERS)
     /\ \A i, j \in 1..Len(ret.l) :
          i < j => RegistryPos(ret.l[i]) < RegistryPos(ret.l[j])

PossibleImportersPure ==
  /\ (call'.op = "get_possible_importers")
       => UNCHANGED <<index, docs, lists, BASE_STATS, results, args>>
  /\ (call.op = "get_possible_importers" /\ call'.op = "get_possible_importers")
       => ret' = ret

\* C6: get_possible_importers returns exactly the importers of IMPORTERS
\* whose can_import is true, each once and in registry order; it changes no
\* state and a second call with the same arguments returns the same list.
C6_PossibleImporters == []PossibleImportersExact /\ [][PossibleImportersPure]_vars

\* a folder named *.pdf that holds PDF files: two importers can handle it
C6_Witness ==
  /\ call.op = "get_possible_importers"
  /\ ret.l = <<"PdfDirectoryImporter", "PdfImporter">>
  /\ ncalls = 2

====
